---------------------------- MODULE Spec2Model ----------------------------
(***************************************************************************)
(* Route optimisation engine of lucidity-route-optimizer.                  *)
(*                                                                         *)
(*   app/core/services/route_optimizer.py   RouteOptimizer.best_route      *)
(*   app/core/services/path_generator.py    PermutationPathGenerator       *)
(*   app/core/services/cost_calculator.py   TimeCostCalculator             *)
(*   app/infrastructure/distance/*.py       HaversineDistance,             *)
(*                                          ConstantSpeedEstimator         *)
(*   app/services.py                        find_best_route (legacy)       *)
(*   app/api/routers/routes.py              find_route_endpoint            *)
(*   app/schemas/route.py                   RouteRequest, RouteResponse    *)
(*                                                                         *)
(* One call is a run of the state machine: the caller's (source, orders)   *)
(* are fixed in the initial state, an entry point is taken, and the        *)
(* handler's statements are executed phase by phase until it returns or    *)
(* raises.                                                                 *)
(*                                                                         *)
(* Numbers.  Python floats are modelled by integers: kilometres and        *)
(* minutes are truncated to whole units.  float("inf"), which the code     *)
(* uses as the initial min_time, is modelled by the value Inf below.       *)
(* Input prep times and coordinates are finite numbers.                    *)
(***************************************************************************)
EXTENDS Integers, Sequences, FiniteSets, TLC

(***************************************************************************)
(* Bounds of the model.                                                    *)
(***************************************************************************)
MaxOrders == 2
MaxCalls == 3

(***************************************************************************)
(* Program constants (app/infrastructure/settings.py; app/config.py sets   *)
(* the same values for the legacy entry point).                            *)
(***************************************************************************)
AVERAGE_SPEED_KMPH == 20
EARTH_RADIUS_KM == 6371

(***************************************************************************)
(* Domain entities: Location {id, lat, lon}, Order {restaurant, customer,  *)
(* prep_time_mins}.                                                        *)
(***************************************************************************)
Location(i, la, lo) == [id |-> i, lat |-> la, lon |-> lo]

Order(r, c, p) == [restaurant |-> r, customer |-> c, prep_time_mins |-> p]

(***************************************************************************)
(* Inputs.  All coordinates lie on the great circle made of the meridians  *)
(* 0 and 180, where the haversine central angle is the difference of the   *)
(* positions along the circle.  Two sources: one at (0,0), one at          *)
(* (-8,180), the antipode of location "a".  Locations "d" and "e" share    *)
(* the coordinates of the first source; location "s" has the source's id.  *)
(* Restaurants and customers overlap in "s", "a", "d" and "e", so that an  *)
(* order's two ids may coincide with each other, with the source id or     *)
(* with another order's ids.                                               *)
(***************************************************************************)
SourcePool == { Location("s", 0, 0), Location("s", -8, 180) }

RestaurantPool ==
    { Location("s", 0, 0), Location("a", 8, 0), Location("d", 0, 0),
      Location("e", 0, 0) }

CustomerPool ==
    { Location("s", 0, 0), Location("a", 8, 0), Location("b", 16, 0),
      Location("d", 0, 0), Location("e", 0, 0) }

PrepPool == { 0, 6000 }

OrderPool ==
    { Order(r, c, p) : r \in RestaurantPool, c \in CustomerPool,
                       p \in PrepPool }

SeqsUpTo(S, n) == UNION { [1..k -> S] : k \in 0..n }

(***************************************************************************)
(* Helpers on sequences and Python dicts.  A dict keeps its keys in        *)
(* first-insertion order and the value of the last write.                  *)
(***************************************************************************)
Range(s) == { s[k] : k \in DOMAIN s }

EmptyDict == [keys |-> <<>>, val |-> <<>>]

\* faulty variant of DictPut: the first value written for a key is kept
DictPutFirstWins(d, k, v) ==
    [keys |-> IF k \in Range(d.keys) THEN d.keys ELSE Append(d.keys, k),
     val  |-> d.val @@ (k :> v)]

DictPut(d, k, v) ==
    [keys |-> IF k \in Range(d.keys) THEN d.keys ELSE Append(d.keys, k),
     val  |-> (k :> v) @@ d.val]

DictHas(d, k) == k \in Range(d.keys)

IndexOf(s, x) == CHOOSE k \in DOMAIN s : s[k] = x

Abs(x) == IF x < 0 THEN -x ELSE x

\* faulty variant of Max: the smaller of the two
MinOf(x, y) == IF x <= y THEN x ELSE y

Max(x, y) == IF x >= y THEN x ELSE y

(***************************************************************************)
(* float("inf") and finite times.                                          *)
(***************************************************************************)
Inf == [inf |-> TRUE, v |-> 0]

Fin(x) == [inf |-> FALSE, v |-> x]

\* t < m for a finite t and a possibly infinite m
LessThan(t, m) == m.inf \/ t < m.v


(***************************************************************************)
(* DistanceModel: HaversineDistance.distance_km.                           *)
(*                                                                         *)
(*   h = sin^2(dlat/2) + cos(lat1) cos(lat2) sin^2(dlon/2)                 *)
(*   c = 2 atan2(sqrt(h), sqrt(1 - h));  distance = radius * c             *)
(*                                                                         *)
(* On the meridians 0/180 the central angle c is the angular separation    *)
(* of the two positions along the circle (CentralAngleDeg, in degrees).    *)
(* For an antipodal pair h is sin^2(lat) + cos^2(lat); in IEEE doubles     *)
(* this sum is 1.0000000000000002 for lat = 8, 12 and 82 degrees (and      *)
(* their negatives), so 1 - h is negative and math.sqrt raises ValueError. *)
(* For lat = 0 the sum is exactly 1.0.                                     *)
(***************************************************************************)
CirclePos(loc) == IF loc.lon = 0 THEN loc.lat ELSE 180 - loc.lat

CentralAngleDeg(a, b) ==
    LET diff == Abs(CirclePos(a) - CirclePos(b)) % 360
    IN  IF diff > 180 THEN 360 - diff ELSE diff

\* the latitudes (absolute value) whose sin^2 + cos^2 rounds above 1.0
HRoundsAboveOne == { 8, 12, 82 }

\* math.sqrt(1 - h) raises ValueError("math domain error")
distance_km_raises(a, b) ==
    CentralAngleDeg(a, b) = 180 /\ Abs(a.lat) \in HRoundsAboveOne

\* radius * c, with c in radians (pi ~ 355/113), truncated to whole km
distance_km(a, b) ==
    (EARTH_RADIUS_KM * 355 * CentralAngleDeg(a, b)) \div (113 * 180)

(***************************************************************************)
(* TimeModel: ConstantSpeedEstimator.minutes = (km / kmph) * 60.           *)
(***************************************************************************)
minutes(km) == (km * 60) \div AVERAGE_SPEED_KMPH

(***************************************************************************)
(* itertools.permutations(waypoints): the permutations of a sequence in    *)
(* lexicographic order of the positions.                                   *)
(***************************************************************************)
RemoveAt(s, k) == SubSeq(s, 1, k - 1) \o SubSeq(s, k + 1, Len(s))

RECURSIVE Flatten(_)
Flatten(ss) == IF ss = <<>> THEN <<>> ELSE Head(ss) \o Flatten(Tail(ss))

\* faulty variant of permutations: the last position is taken first
RECURSIVE PermutationsLastFirst(_)
PermutationsLastFirst(s) ==
    IF s = <<>> THEN << <<>> >>
    ELSE Flatten([k \in 1..Len(s) |->
             LET m    == Len(s) + 1 - k
                 rest == PermutationsLastFirst(RemoveAt(s, m))
             IN  [j \in 1..Len(rest) |-> <<s[m]>> \o rest[j]]])

RECURSIVE permutations(_)
permutations(s) ==
    IF s = <<>> THEN << <<>> >>
    ELSE Flatten([k \in 1..Len(s) |->
             LET rest == permutations(RemoveAt(s, k))
             IN  [j \in 1..Len(rest) |-> <<s[k]>> \o rest[j]]])

(***************************************************************************)
(* The loop shared by best_route, valid_paths and find_best_route: the     *)
(* location dict, the prep-time dict and the (restaurant, customer) pairs. *)
(***************************************************************************)
RECURSIVE LocationsOf(_, _)
LocationsOf(d, os) ==
    IF os = <<>> THEN d
    ELSE LocationsOf(
             DictPut(DictPut(d, Head(os).restaurant.id, Head(os).restaurant),
                     Head(os).customer.id, Head(os).customer),
             Tail(os))

\* faulty variant of PrepTimesOf: the first order naming a restaurant id wins
RECURSIVE PrepTimesFirstWins(_, _)
PrepTimesFirstWins(d, os) ==
    IF os = <<>> THEN d
    ELSE PrepTimesFirstWins(
             IF DictHas(d, Head(os).restaurant.id) THEN d
             ELSE DictPut(d, Head(os).restaurant.id, Head(os).prep_time_mins),
             Tail(os))

\* faulty variant of PrepTimesOf: the customer id is registered as well
RECURSIVE PrepTimesBothEnds(_, _)
PrepTimesBothEnds(d, os) ==
    IF os = <<>> THEN d
    ELSE PrepTimesBothEnds(
             DictPut(DictPut(d, Head(os).restaurant.id, Head(os).prep_time_mins),
                     Head(os).customer.id, Head(os).prep_time_mins),
             Tail(os))

RECURSIVE PrepTimesOf(_, _)
PrepTimesOf(d, os) ==
    IF os = <<>> THEN d
    ELSE PrepTimesOf(
             DictPut(d, Head(os).restaurant.id, Head(os).prep_time_mins),
             Tail(os))

OrderPairsOf(os) ==
    [k \in 1..Len(os) |-> <<os[k].restaurant.id, os[k].customer.id>>]

\* faulty variant of WaypointsOf: the source id is not filtered out
WaypointsWithSource(keys, sid) == keys

\* waypoints = [loc_id for loc_id in locations if loc_id != source.id]
RECURSIVE WaypointsOf(_, _)
WaypointsOf(keys, sid) ==
    IF keys = <<>> THEN <<>>
    ELSE IF Head(keys) = sid THEN WaypointsOf(Tail(keys), sid)
    ELSE <<Head(keys)>> \o WaypointsOf(Tail(keys), sid)

(***************************************************************************)
(* PathGenerator: PermutationPathGenerator.                                *)
(***************************************************************************)
\* faulty variant of is_valid: the comparison reversed: rejects restaurant-first paths
is_valid_reversed(path, order_pairs) ==
    \A k \in 1..Len(order_pairs) :
        LET r == order_pairs[k][1]
            c == order_pairs[k][2]
        IN  (r \in Range(path) /\ c \in Range(path))
                => ~(IndexOf(path, r) < IndexOf(path, c))

\* faulty variant of is_valid: only the first pair is checked
is_valid_first_pair(path, order_pairs) ==
    \A k \in 1..Len(order_pairs) :
        LET r == order_pairs[k][1]
            c == order_pairs[k][2]
        IN  (k = 1 /\ r \in Range(path) /\ c \in Range(path))
                => ~(IndexOf(path, r) > IndexOf(path, c))

\* _is_valid: a pair with an id that is not in the path is skipped
is_valid(path, order_pairs) ==
    \A k \in 1..Len(order_pairs) :
        LET r == order_pairs[k][1]
            c == order_pairs[k][2]
        IN  (r \in Range(path) /\ c \in Range(path))
                => ~(IndexOf(path, r) > IndexOf(path, c))

\* faulty variant of FilterValid: the generator stops after its first path
FilterValidFirstOnly(ps, order_pairs) ==
    LET Keep(path) == is_valid(path, order_pairs)
        kept       == SelectSeq(ps, Keep)
    IN  IF kept = <<>> THEN <<>> ELSE <<kept[1]>>

\* for path in permutations: if self._is_valid(path, order_pairs): yield path
RECURSIVE FilterValid(_, _)
FilterValid(ps, order_pairs) ==
    IF ps = <<>> THEN <<>>
    ELSE IF is_valid(Head(ps), order_pairs)
         THEN <<Head(ps)>> \o FilterValid(Tail(ps), order_pairs)
         ELSE FilterValid(Tail(ps), order_pairs)

\* faulty variant of valid_paths_of: no early return for zero orders
valid_paths_no_return(src, os) ==
    LET locs  == LocationsOf(DictPut(EmptyDict, src.id, src), os)
        pairs == OrderPairsOf(os)
    IN  FilterValid(permutations(WaypointsOf(locs.keys, src.id)), pairs)

\* valid_paths, as the sequence of the paths it yields
valid_paths_of(src, os) ==
    LET locs  == LocationsOf(DictPut(EmptyDict, src.id, src), os)
        pairs == OrderPairsOf(os)
    IN  IF pairs = <<>> THEN <<>>
        ELSE FilterValid(permutations(WaypointsOf(locs.keys, src.id)), pairs)

(***************************************************************************)
(* CostEvaluator: TimeCostCalculator.total_time_mins.                      *)
(***************************************************************************)
\* faulty variant of Simulate: the preparation starts when the courier arrives
RECURSIVE SimulatePrepOnArrival(_, _, _, _, _)
SimulatePrepOnArrival(current_time, current_loc_id, path, tt, prep) ==
    IF path = <<>> THEN current_time
    ELSE LET next_loc_id  == Head(path)
             travel       == tt[current_loc_id][next_loc_id]
             arrival_time == current_time + travel
             wait_time    == IF DictHas(prep, next_loc_id)
                             THEN prep.val[next_loc_id]
                             ELSE 0
         IN  SimulatePrepOnArrival(arrival_time + wait_time, next_loc_id,
                                   Tail(path), tt, prep)

RECURSIVE Simulate(_, _, _, _, _)
Simulate(current_time, current_loc_id, path, tt, prep) ==
    IF path = <<>> THEN current_time
    ELSE LET next_loc_id  == Head(path)
             travel       == tt[current_loc_id][next_loc_id]
             arrival_time == current_time + travel
             wait_time    == IF DictHas(prep, next_loc_id)
                             THEN Max(0, prep.val[next_loc_id] - arrival_time)
                             ELSE 0
         IN  Simulate(arrival_time + wait_time, next_loc_id, Tail(path),
                      tt, prep)

\* faulty variant of total_time_mins: the courier never waits
total_time_no_wait(src, path, tt, prep) ==
    Simulate(0, src.id, path, tt, EmptyDict)

total_time_mins(src, path, tt, prep) == Simulate(0, src.id, path, tt, prep)

(***************************************************************************)
(* RouteOptimizer._precompute_travel_times.                                *)
(***************************************************************************)
precompute_raises(locs) ==
    \E a \in Range(locs.keys), b \in Range(locs.keys) :
        a # b /\ distance_km_raises(locs.val[a], locs.val[b])

\* faulty variant of precompute_travel_times: the last id is left out
precompute_without_last(locs) ==
    LET ids == Range(SubSeq(locs.keys, 1, Len(locs.keys) - 1))
    IN  [a \in ids |->
            [b \in ids |->
                IF a = b THEN 0
                ELSE minutes(distance_km(locs.val[a], locs.val[b]))]]

precompute_travel_times(locs) ==
    [a \in Range(locs.keys) |->
        [b \in Range(locs.keys) |->
            IF a = b THEN 0
            ELSE minutes(distance_km(locs.val[a], locs.val[b]))]]

\* faulty variant of OrderedPairs: no shortcut for a == b
OrderedPairsWithDiagonal(ids) ==
    LET n == Len(ids)
    IN  [k \in 1..(n * n) |->
            <<ids[((k - 1) \div n) + 1], ids[((k - 1) % n) + 1]>>]

\* for a in ids: for b in ids: the pairs that take the else branch (a # b),
\* in the order of the two loops
OrderedPairs(ids) ==
    LET n   == Len(ids)
        all == [k \in 1..(n * n) |->
                   <<ids[((k - 1) \div n) + 1], ids[((k - 1) % n) + 1]>>]
        Distinct(pr) == pr[1] # pr[2]
    IN  SelectSeq(all, Distinct)

\* the number of pairs processed before the distance model raises (all of
\* them when it does not)
PairsBeforeRaise(locs) ==
    LET prs     == OrderedPairs(locs.keys)
        raising == { k \in 1..Len(prs) :
                       distance_km_raises(locs.val[prs[k][1]],
                                          locs.val[prs[k][2]]) }
    IN  IF raising = {} THEN Len(prs)
        ELSE (CHOOSE k \in raising : \A j \in raising : k <= j) - 1

\* the calls self._dist.distance_km(locations[a], locations[b]) of one
\* _precompute_travel_times, the raising call included
distance_km_calls(locs) ==
    LET prs == OrderedPairs(locs.keys)
        m   == PairsBeforeRaise(locs)
    IN  SubSeq(prs, 1, IF m < Len(prs) THEN m + 1 ELSE m)

\* the calls self._time.minutes(km), one after each distance that returned
minutes_calls(locs) ==
    LET prs == OrderedPairs(locs.keys)
    IN  [k \in 1..PairsBeforeRaise(locs) |->
            distance_km(locs.val[prs[k][1]], locs.val[prs[k][2]])]

(***************************************************************************)
(* Legacy app.services: _is_path_valid indexes path_indices without a      *)
(* membership test, so an id that is not in the path (the source id)       *)
(* raises KeyError unless an earlier pair already returned False.          *)
(***************************************************************************)
\* app.utils.haversine_distance: the same formula with the radius of app.config
haversine_distance_raises(loc1, loc2) ==
    CentralAngleDeg(loc1, loc2) = 180 /\ Abs(loc1.lat) \in HRoundsAboveOne

haversine_distance(loc1, loc2) ==
    (EARTH_RADIUS_KM * 355 * CentralAngleDeg(loc1, loc2)) \div (113 * 180)

\* app.utils.calculate_travel_time_mins: distance / speed * 60
calculate_travel_time_mins(loc1, loc2) ==
    (haversine_distance(loc1, loc2) * 60) \div AVERAGE_SPEED_KMPH

\* app.services._precompute_travel_times
services_precompute_raises(locs) ==
    \E id1 \in Range(locs.keys), id2 \in Range(locs.keys) :
        id1 # id2 /\ haversine_distance_raises(locs.val[id1], locs.val[id2])

services_precompute_travel_times(locs) ==
    [id1 \in Range(locs.keys) |->
        [id2 \in Range(locs.keys) |->
            IF id1 = id2 THEN 0
            ELSE calculate_travel_time_mins(locs.val[id1], locs.val[id2])]]

\* app.services._calculate_total_time: the same simulation
calculate_total_time(src, path, tt, prep) == Simulate(0, src.id, path, tt, prep)

RECURSIVE is_path_valid(_, _)
is_path_valid(path, order_pairs) ==
    IF order_pairs = <<>> THEN "True"
    ELSE LET r == Head(order_pairs)[1]
             c == Head(order_pairs)[2]
         IN  IF r \notin Range(path) \/ c \notin Range(path) THEN "KeyError"
             ELSE IF IndexOf(path, r) > IndexOf(path, c) THEN "False"
             ELSE is_path_valid(path, Tail(order_pairs))

\* for path in all_permutations:
\*     if _is_path_valid(path, order_pairs): valid_paths.append(path)
RECURSIVE LegacyFilter(_, _)
LegacyFilter(ps, order_pairs) ==
    IF ps = <<>> THEN <<>>
    ELSE IF is_path_valid(Head(ps), order_pairs) = "True"
         THEN <<Head(ps)>> \o LegacyFilter(Tail(ps), order_pairs)
         ELSE LegacyFilter(Tail(ps), order_pairs)

LegacyFilterRaises(ps, order_pairs) ==
    \E k \in 1..Len(ps) : is_path_valid(ps[k], order_pairs) = "KeyError"

(***************************************************************************)
(* State.                                                                  *)
(*   source, orders   the caller's arguments                               *)
(*   entry            the entry point taken: RouteOptimizer.best_route or  *)
(*                    app.services.find_best_route                         *)
(*   pc               the position in the handler                          *)
(*   locations, prep_times, order_pairs, travel_times, valid_paths,        *)
(*   idx, min_time, best_path      the handler's local variables (idx is   *)
(*                    the position of the for loop in valid_paths)         *)
(*   result, error    what the call returned, or the exception it raised   *)
(*   first, calls     history: the first completed call with its outcome,  *)
(*                    and the number of calls started                      *)
(*   self             the optimizer instance: its four injected components *)
(*   other            a second invocation on the same instance, suspended  *)
(*                    with its own arguments, locals and outcome (unused   *)
(*                    when a single invocation runs)                       *)
(*   calllog          history: the calls this invocation has made to the   *)
(*                    distance model, the time model and the cost          *)
(*                    evaluator, in order, with their arguments            *)
(***************************************************************************)
VARIABLES source, orders, entry, pc, locations, prep_times, order_pairs,
          travel_times, valid_paths, idx, min_time, best_path, result,
          error, first, calls, self, other, calllog

input  == <<source, orders>>
locals == <<locations, prep_times, order_pairs, travel_times, valid_paths,
            idx, min_time, best_path>>
history == <<first, calls>>
vars   == <<source, orders, entry, pc, locations, prep_times, order_pairs,
            travel_times, valid_paths, idx, min_time, best_path, result,
            error, first, calls, self, other, calllog>>

NoResult == [best_path |-> <<>>, total_time_mins |-> Fin(-1)]

RouteResult(path, t) == [best_path |-> path, total_time_mins |-> t]

NoFirst == [set |-> FALSE]

\* RouteOptimizer.__init__: the four injected components
RouteOptimizer_init(paths, cost, dist, time) ==
    [_paths |-> paths, _cost |-> cost, _dist |-> dist, _time |-> time]

\* app.api.deps.get_route_optimizer: the instance the application builds
get_route_optimizer ==
    RouteOptimizer_init("PermutationPathGenerator", "TimeCostCalculator",
                        [_earth_radius_km |-> EARTH_RADIUS_KM],
                        [_kmph |-> AVERAGE_SPEED_KMPH])

NoInvocation == [set |-> FALSE]

NoCalls == [distance_km |-> <<>>, minutes |-> <<>>, total_time_mins |-> <<>>]

InitLocals ==
    /\ entry = "none"
    /\ pc = "start"
    /\ locations = EmptyDict
    /\ prep_times = EmptyDict
    /\ order_pairs = <<>>
    /\ travel_times = <<>>
    /\ valid_paths = <<>>
    /\ idx = 0
    /\ min_time = Inf
    /\ best_path = <<>>
    /\ result = NoResult
    /\ error = "none"
    /\ first = NoFirst
    /\ calls = 1
    /\ self = get_route_optimizer
    /\ calllog = NoCalls

Init ==
    /\ source \in SourcePool
    /\ orders \in SeqsUpTo(OrderPool, MaxOrders)
    /\ InitLocals
    /\ other = NoInvocation

(***************************************************************************)
(* RouteOptimizer.best_route                                               *)
(***************************************************************************)
\* faulty variant of BuildMaps: the maps are kept between calls and extended
BuildMapsKeep ==
    /\ pc = "start"
    /\ entry' = "best_route"
    /\ locations' = LocationsOf(DictPut(locations, source.id, source), orders)
    /\ prep_times' = PrepTimesOf(prep_times, orders)
    /\ pc' = "precompute"
    /\ UNCHANGED <<self, other, calllog, input, order_pairs, travel_times, valid_paths,
                   idx, min_time, best_path, result, error, history>>

\* lines 19-27: orders_list, locations and prep_times
BuildMaps ==
    /\ pc = "start"
    /\ entry' = "best_route"
    /\ locations' = LocationsOf(DictPut(EmptyDict, source.id, source), orders)
    /\ prep_times' = PrepTimesOf(EmptyDict, orders)
    /\ pc' = "precompute"
    /\ UNCHANGED <<self, other, calllog, input, order_pairs, travel_times, valid_paths, idx,
                   min_time, best_path, result, error, history>>

\* line 29: travel_times = self._precompute_travel_times(locations)
PrecomputeTravelTimes ==
    /\ pc = "precompute"
    /\ entry = "best_route"
    /\ IF precompute_raises(locations)
       THEN /\ pc' = "raised"
            /\ error' = "ValueError"
            /\ UNCHANGED travel_times
       ELSE /\ pc' = "generate"
            /\ travel_times' = precompute_travel_times(locations)
            /\ UNCHANGED error
    /\ calllog' = [calllog EXCEPT
                       !.distance_km = @ \o distance_km_calls(locations),
                       !.minutes = @ \o minutes_calls(locations)]
    /\ UNCHANGED <<self, other, input, entry, locations, prep_times,
                   order_pairs, valid_paths, idx, min_time, best_path,
                   result, history>>

\* line 31: valid_paths = list(self._paths.valid_paths(source, orders_list))
GeneratePaths ==
    /\ pc = "generate"
    /\ entry = "best_route"
    /\ valid_paths' = valid_paths_of(source, orders)
    /\ pc' = "check"
    /\ UNCHANGED <<self, other, calllog, input, entry, locations, prep_times, order_pairs,
                   travel_times, idx, min_time, best_path, result, error,
                   history>>

\* faulty variant of SourceOnlyRoute: an empty path
EmptyRoute(src) == RouteResult(<<>>, Fin(0))

\* line 33: [source.id], 0.0
SourceOnlyRoute(src) == RouteResult(<<src.id>>, Fin(0))

\* lines 32-33: if not valid_paths: return [source.id], 0.0
ReturnSourceOnly ==
    /\ pc = "check"
    /\ entry = "best_route"
    /\ valid_paths = <<>>
    /\ result' = SourceOnlyRoute(source)
    /\ pc' = "returned"
    /\ UNCHANGED <<self, other, calllog, input, entry, locals, error, history>>

\* faulty variant of StartSearch: min_time and best_path keep their previous values
StartSearchNoReset ==
    /\ pc = "check"
    /\ entry = "best_route"
    /\ valid_paths # <<>>
    /\ idx' = 1
    /\ pc' = "evaluate"
    /\ UNCHANGED <<self, other, calllog, input, entry, locations, prep_times, order_pairs,
                   travel_times, valid_paths, min_time, best_path, result,
                   error, history>>

\* faulty variant of StartSearch: the loop starts at the second candidate
StartSearchSkipFirst ==
    /\ pc = "check"
    /\ entry = "best_route"
    /\ valid_paths # <<>>
    /\ min_time' = Inf
    /\ best_path' = <<>>
    /\ idx' = 2
    /\ pc' = "evaluate"
    /\ UNCHANGED <<self, other, calllog, input, entry, locations, prep_times,
                   order_pairs, travel_times, valid_paths, result, error,
                   history>>

\* lines 35-36: min_time = float("inf"); best_path = []
StartSearch ==
    /\ pc = "check"
    /\ entry = "best_route"
    /\ valid_paths # <<>>
    /\ min_time' = Inf
    /\ best_path' = <<>>
    /\ idx' = 1
    /\ pc' = "evaluate"
    /\ UNCHANGED <<self, other, calllog, input, entry, locations, prep_times, order_pairs,
                   travel_times, valid_paths, result, error, history>>

\* faulty variant of Improves: keeps the larger time
ImprovesLarger(t, m) == m.inf \/ t > m.v

\* faulty variant of Improves: an equal time also replaces the best
ImprovesOrEqual(t, m) == m.inf \/ t <= m.v

\* line 39: if t < min_time
Improves(t, m) == LessThan(t, m)

\* faulty variant of PathFromSource: the source id is not prepended
PathWithoutSource(src, path) == path

\* line 41: best_path = [source.id] + list(path)
PathFromSource(src, path) == <<src.id>> \o path

\* lines 37-41: one iteration of  for path in valid_paths
EvaluatePath ==
    /\ pc = "evaluate"
    /\ entry = "best_route"
    /\ idx <= Len(valid_paths)
    /\ LET path == valid_paths[idx]
           t    == total_time_mins(source, path, travel_times, prep_times)
       IN  IF Improves(t, min_time)
           THEN /\ min_time' = Fin(t)
                /\ best_path' = PathFromSource(source, path)
           ELSE UNCHANGED <<min_time, best_path>>
    /\ idx' = idx + 1
    /\ calllog' = [calllog EXCEPT
                       !.total_time_mins =
                           Append(@, [source |-> source,
                                      path |-> valid_paths[idx],
                                      travel_times |-> travel_times,
                                      prep_times |-> prep_times])]
    /\ UNCHANGED <<self, other, input, entry, pc, locations, prep_times,
                   order_pairs, travel_times, valid_paths, result, error,
                   history>>

\* line 43: return best_path, min_time
ReturnBest ==
    /\ pc = "evaluate"
    /\ entry = "best_route"
    /\ idx > Len(valid_paths)
    /\ result' = RouteResult(best_path, min_time)
    /\ pc' = "returned"
    /\ UNCHANGED <<self, other, calllog, input, entry, locals, error, history>>

(***************************************************************************)
(* app.services.find_best_route (the legacy entry point)                   *)
(***************************************************************************)
\* lines 16-29: locations, prep_times and order_pairs
LegacyBuildMaps ==
    /\ pc = "start"
    /\ entry' = "find_best_route"
    /\ locations' = LocationsOf(DictPut(EmptyDict, source.id, source), orders)
    /\ prep_times' = PrepTimesOf(EmptyDict, orders)
    /\ order_pairs' = OrderPairsOf(orders)
    /\ pc' = "precompute"
    /\ UNCHANGED <<self, other, calllog, input, travel_times, valid_paths, idx, min_time,
                   best_path, result, error, history>>

\* line 32: travel_times = _precompute_travel_times(locations)
LegacyPrecompute ==
    /\ pc = "precompute"
    /\ entry = "find_best_route"
    /\ IF services_precompute_raises(locations)
       THEN /\ pc' = "raised"
            /\ error' = "ValueError"
            /\ UNCHANGED travel_times
       ELSE /\ pc' = "generate"
            /\ travel_times' = services_precompute_travel_times(locations)
            /\ UNCHANGED error
    /\ UNCHANGED <<self, other, calllog, input, entry, locations, prep_times, order_pairs,
                   valid_paths, idx, min_time, best_path, result, history>>

\* lines 36-46: the valid permutations, then min_time and best_path
LegacyFilterPaths ==
    /\ pc = "generate"
    /\ entry = "find_best_route"
    /\ LET all_permutations ==
               permutations(WaypointsOf(locations.keys, source.id))
       IN  IF LegacyFilterRaises(all_permutations, order_pairs)
           THEN /\ pc' = "raised"
                /\ error' = "KeyError"
                /\ UNCHANGED <<valid_paths, min_time, best_path>>
           ELSE /\ pc' = "check"
                /\ valid_paths' = LegacyFilter(all_permutations, order_pairs)
                /\ min_time' = Inf
                /\ best_path' = <<>>
                /\ UNCHANGED error
    /\ UNCHANGED <<self, other, calllog, input, entry, locations, prep_times, order_pairs,
                   travel_times, idx, result, history>>

\* lines 48-50: if not valid_paths: return RouteResponse([source.id], 0)
LegacyReturnSourceOnly ==
    /\ pc = "check"
    /\ entry = "find_best_route"
    /\ valid_paths = <<>>
    /\ result' = RouteResult(<<source.id>>, Fin(0))
    /\ pc' = "returned"
    /\ UNCHANGED <<self, other, calllog, input, entry, locals, error, history>>

\* line 52: for path in valid_paths
LegacyStartLoop ==
    /\ pc = "check"
    /\ entry = "find_best_route"
    /\ valid_paths # <<>>
    /\ idx' = 1
    /\ pc' = "evaluate"
    /\ UNCHANGED <<self, other, calllog, input, entry, locations, prep_times, order_pairs,
                   travel_times, valid_paths, min_time, best_path, result,
                   error, history>>

\* lines 52-63: one iteration of the loop
LegacyEvaluatePath ==
    /\ pc = "evaluate"
    /\ entry = "find_best_route"
    /\ idx <= Len(valid_paths)
    /\ LET path == valid_paths[idx]
           current_time ==
               calculate_total_time(source, path, travel_times, prep_times)
       IN  IF LessThan(current_time, min_time)
           THEN /\ min_time' = Fin(current_time)
                /\ best_path' = <<source.id>> \o path
           ELSE UNCHANGED <<min_time, best_path>>
    /\ idx' = idx + 1
    /\ UNCHANGED <<self, other, calllog, input, entry, pc, locations, prep_times, order_pairs,
                   travel_times, valid_paths, result, error, history>>

\* line 65: return RouteResponse(best_path=best_path, total_time_mins=min_time)
LegacyReturnBest ==
    /\ pc = "evaluate"
    /\ entry = "find_best_route"
    /\ idx > Len(valid_paths)
    /\ result' = RouteResult(best_path, min_time)
    /\ pc' = "returned"
    /\ UNCHANGED <<self, other, calllog, input, entry, locals, error, history>>

(***************************************************************************)
(* One call of RouteOptimizer.best_route (Spec), one call of the legacy     *)
(* find_best_route (SpecLegacy).                                           *)
(***************************************************************************)
Next ==
    \/ BuildMaps
    \/ PrecomputeTravelTimes
    \/ GeneratePaths
    \/ ReturnSourceOnly
    \/ StartSearch
    \/ EvaluatePath
    \/ ReturnBest

Spec == Init /\ [][Next]_vars

NextLegacy ==
    \/ LegacyBuildMaps
    \/ LegacyPrecompute
    \/ LegacyFilterPaths
    \/ LegacyReturnSourceOnly
    \/ LegacyStartLoop
    \/ LegacyEvaluatePath
    \/ LegacyReturnBest

SpecLegacy == Init /\ [][NextLegacy]_vars

(***************************************************************************)
(* A sequence of calls on one optimizer instance.  The next call starts    *)
(* when the previous one has returned or raised; the handler's locals are  *)
(* whatever the previous call left, and the call writes them before it     *)
(* reads them.  The history variable first keeps the first completed call. *)
(***************************************************************************)
SeqOrderPool ==
    { Order(Location("a", 8, 0), Location("b", 16, 0), 6000),
      Order(Location("d", 0, 0), Location("e", 0, 0), 0) }

Completed == [set |-> TRUE, entry |-> entry, source |-> source,
              orders |-> orders, pc |-> pc, result |-> result,
              error |-> error]

NextCall ==
    /\ pc \in {"returned", "raised"}
    /\ calls < MaxCalls
    /\ calls' = calls + 1
    /\ first' = IF first.set THEN first ELSE Completed
    /\ source' \in SourcePool
    /\ orders' \in SeqsUpTo(SeqOrderPool, MaxOrders)
    /\ entry' = "none"
    /\ pc' = "start"
    /\ result' = NoResult
    /\ error' = "none"
    /\ calllog' = NoCalls
    /\ UNCHANGED <<self, other, locals>>

InitSeq ==
    /\ source \in SourcePool
    /\ orders \in SeqsUpTo(SeqOrderPool, MaxOrders)
    /\ InitLocals
    /\ other = NoInvocation

NextSeq == Next \/ NextCall

SpecSeq == InitSeq /\ [][NextSeq]_vars

(***************************************************************************)
(* Two invocations of best_route on one instance, their steps interleaved. *)
(* Each invocation has its own arguments and local variables (one Python   *)
(* frame each); the instance is the only object they share.  The running   *)
(* invocation is held in the variables, the suspended one in other; Switch *)
(* suspends the running invocation and resumes the other one.              *)
(***************************************************************************)
Frame ==
    [set |-> TRUE, source |-> source, orders |-> orders, entry |-> entry,
     pc |-> pc, locations |-> locations, prep_times |-> prep_times,
     order_pairs |-> order_pairs, travel_times |-> travel_times,
     valid_paths |-> valid_paths, idx |-> idx, min_time |-> min_time,
     best_path |-> best_path, result |-> result, error |-> error,
     calllog |-> calllog]

NewFrame(src, os) ==
    [set |-> TRUE, source |-> src, orders |-> os, entry |-> "none",
     pc |-> "start", locations |-> EmptyDict, prep_times |-> EmptyDict,
     order_pairs |-> <<>>, travel_times |-> <<>>, valid_paths |-> <<>>,
     idx |-> 0, min_time |-> Inf, best_path |-> <<>>, result |-> NoResult,
     error |-> "none", calllog |-> NoCalls]

\* faulty variant of Switch: min_time and best_path belong to the instance,
\* not to the invocation
SwitchSharedBest ==
    /\ other.set
    /\ other.pc \notin {"returned", "raised"}
    /\ other' = Frame
    /\ source' = other.source
    /\ orders' = other.orders
    /\ entry' = other.entry
    /\ pc' = other.pc
    /\ locations' = other.locations
    /\ prep_times' = other.prep_times
    /\ order_pairs' = other.order_pairs
    /\ travel_times' = other.travel_times
    /\ valid_paths' = other.valid_paths
    /\ idx' = other.idx
    /\ result' = other.result
    /\ error' = other.error
    /\ calllog' = other.calllog
    /\ UNCHANGED <<min_time, best_path, self, history>>

\* the running invocation is suspended and the other one resumed: arguments
\* and locals are the resumed invocation's own
Switch ==
    /\ other.set
    /\ other.pc \notin {"returned", "raised"}
    /\ other' = Frame
    /\ source' = other.source
    /\ orders' = other.orders
    /\ entry' = other.entry
    /\ pc' = other.pc
    /\ locations' = other.locations
    /\ prep_times' = other.prep_times
    /\ order_pairs' = other.order_pairs
    /\ travel_times' = other.travel_times
    /\ valid_paths' = other.valid_paths
    /\ idx' = other.idx
    /\ min_time' = other.min_time
    /\ best_path' = other.best_path
    /\ result' = other.result
    /\ error' = other.error
    /\ calllog' = other.calllog
    /\ UNCHANGED <<self, history>>

InitPar ==
    /\ source \in SourcePool
    /\ orders \in SeqsUpTo(SeqOrderPool, MaxOrders)
    /\ InitLocals
    /\ other \in { NewFrame(src, os) :
                     src \in SourcePool,
                     os \in SeqsUpTo(SeqOrderPool, MaxOrders) }

NextPar == Next \/ Switch

SpecPar == InitPar /\ [][NextPar]_vars

(***************************************************************************)
(* best_route run alone, from call to return, as one function of its       *)
(* arguments: how the call ends (returned or raised), the result and the   *)
(* exception.                                                              *)
(***************************************************************************)
RECURSIVE SearchFrom(_, _, _, _, _, _, _)
SearchFrom(src, paths, tt, prep, k, m, b) ==
    IF k > Len(paths) THEN RouteResult(b, m)
    ELSE LET t == total_time_mins(src, paths[k], tt, prep)
         IN  IF Improves(t, m)
             THEN SearchFrom(src, paths, tt, prep, k + 1, Fin(t),
                             PathFromSource(src, paths[k]))
             ELSE SearchFrom(src, paths, tt, prep, k + 1, m, b)

best_route_alone(src, os) ==
    LET locs  == LocationsOf(DictPut(EmptyDict, src.id, src), os)
        prep  == PrepTimesOf(EmptyDict, os)
        paths == valid_paths_of(src, os)
    IN  IF precompute_raises(locs)
        THEN [pc |-> "raised", result |-> NoResult, error |-> "ValueError"]
        ELSE [pc |-> "returned", error |-> "none",
              result |-> IF paths = <<>> THEN SourceOnlyRoute(src)
                         ELSE SearchFrom(src, paths,
                                         precompute_travel_times(locs),
                                         prep, 1, Inf, <<>>)]

(***************************************************************************)
(* The HTTP endpoint POST /find-route (app/api/routers/routes.py) with the *)
(* request schema of app/schemas/route.py.  The body is validated against  *)
(* RouteRequest before the endpoint function runs; a body that fails is    *)
(* answered with HTTP 422 (app/api/errors.py) and the function is not      *)
(* called.  The function calls optimizer.best_route and turns a ValueError *)
(* into HTTP 400.                                                          *)
(***************************************************************************)
ApiCoords ==
    { <<0, 0>>, <<8, 0>>, <<-8, 180>>, <<90, 180>>, <<-90, -180>>,
      <<91, 0>>, <<-91, 0>>, <<0, 181>>, <<0, -181>> }

ApiPrepPool == { -1, 0, 6000 }

ApiSourcePool == { Location("s", c[1], c[2]) : c \in ApiCoords }

\* orders that differ from a well-formed one in one field
ApiOrderPool ==
    { Order(Location("a", c[1], c[2]), Location("b", 0, 0), 0) :
        c \in ApiCoords }
    \cup { Order(Location("a", 0, 0), Location("b", c[1], c[2]), 0) :
             c \in ApiCoords }
    \cup { Order(Location("a", 0, 0), Location("b", 0, 0), p) :
             p \in ApiPrepPool }

\* faulty variant of lat_field: the upper bound is missing
lat_field_no_upper(x) == x >= -90

\* lat: float = Field(..., ge=-90.0, le=90.0)
lat_field(x) == x >= -90 /\ x <= 90

\* lon: float = Field(..., ge=-180.0, le=180.0)
lon_field(x) == x >= -180 /\ x <= 180

\* prep_time_mins: float = Field(..., ge=0.0)
prep_time_mins_field(x) == x >= 0

Location_valid(loc) == lat_field(loc.lat) /\ lon_field(loc.lon)

Order_valid(o) ==
    /\ Location_valid(o.restaurant)
    /\ Location_valid(o.customer)
    /\ prep_time_mins_field(o.prep_time_mins)

RouteRequest_valid(src, os) ==
    /\ Location_valid(src)
    /\ \A k \in 1..Len(os) : Order_valid(os[k])

\* total_time_mins: float = Field(..., ge=0.0) of RouteResponse
RouteResponse_valid(r) == r.total_time_mins.inf \/ r.total_time_mins.v >= 0

InitApi ==
    /\ source \in ApiSourcePool
    /\ orders \in SeqsUpTo(ApiOrderPool, MaxOrders)
    /\ entry = "none"
    /\ pc = "received"
    /\ locations = EmptyDict
    /\ prep_times = EmptyDict
    /\ order_pairs = <<>>
    /\ travel_times = <<>>
    /\ valid_paths = <<>>
    /\ idx = 0
    /\ min_time = Inf
    /\ best_path = <<>>
    /\ result = NoResult
    /\ error = "none"
    /\ first = NoFirst
    /\ calls = 1
    /\ self = get_route_optimizer
    /\ other = NoInvocation
    /\ calllog = NoCalls

\* the body is parsed into RouteRequest; on failure the handler registered
\* for RequestValidationError answers 422
ValidateRequest ==
    /\ pc = "received"
    /\ IF RouteRequest_valid(source, orders)
       THEN /\ pc' = "start"
            /\ UNCHANGED error
       ELSE /\ pc' = "rejected"
            /\ error' = "HTTP 422"
    /\ UNCHANGED <<self, other, calllog, input, entry, locals, result, history>>

\* return RouteResponse(best_path=best, total_time_mins=total)
RespondOk ==
    /\ pc = "returned"
    /\ IF RouteResponse_valid(result)
       THEN /\ pc' = "responded"
            /\ error' = "HTTP 200"
       ELSE /\ pc' = "failed"
            /\ error' = "HTTP 500"
    /\ UNCHANGED <<self, other, calllog, input, entry, locals, result, history>>

\* except ValueError as ve: raise HTTPException(status_code=400, ...)
RespondBadRequest ==
    /\ pc = "raised"
    /\ error = "ValueError"
    /\ pc' = "responded"
    /\ error' = "HTTP 400"
    /\ UNCHANGED <<self, other, calllog, input, entry, locals, result, history>>

NextApi ==
    \/ ValidateRequest
    \/ Next
    \/ RespondOk
    \/ RespondBadRequest

SpecApi == InitApi /\ [][NextApi]_vars

(***************************************************************************)
(* ConstantSpeedEstimator on its own: an estimator is constructed with a   *)
(* speed and minutes(km) is called.  Here the arithmetic is exact: a       *)
(* result is the fraction num / den (rounding of floats is not modelled).  *)
(* The speed 0 stands for an argument that is falsy in Python (0.0 or      *)
(* None), for which the constructor takes the configured default.          *)
(***************************************************************************)
SpeedPool == { 0, 10, 20, 40, 60 }

KmPool == { -1, 0, 1, 5, 100 }

Rat(n, d) == [num |-> n, den |-> d]

RatEq(x, y) == x.num * y.den = y.num * x.den

RatTimes(x, k) == Rat(x.num * k, x.den)

\* self._kmph = kmph or get_settings().average_speed_kmph
ConstantSpeedEstimator_init(kmph) ==
    [_kmph |-> IF kmph = 0 THEN AVERAGE_SPEED_KMPH ELSE kmph]

\* faulty variant of ConstantSpeedEstimator_minutes: negative results are
\* clamped to 0
minutes_clamped(est, km) ==
    IF km < 0 THEN Rat(0, 1) ELSE RatTimes(Rat(km, est._kmph), 60)

\* return (km / self._kmph) * 60.0
ConstantSpeedEstimator_minutes(est, km) == RatTimes(Rat(km, est._kmph), 60)

\* ConstantSpeedEstimator(kmph=kmph).minutes(km)
EstimateMinutes ==
    /\ Len(calllog.minutes) < MaxCalls
    /\ \E kmph \in SpeedPool, km \in KmPool :
           calllog' = [calllog EXCEPT !.minutes =
               Append(@, [kmph |-> kmph, km |-> km,
                          ret |-> ConstantSpeedEstimator_minutes(
                                      ConstantSpeedEstimator_init(kmph), km)])]
    /\ UNCHANGED <<self, other, input, entry, pc, locals, result, error,
                   history>>

InitMinutes ==
    /\ source = Location("s", 0, 0)
    /\ orders = <<>>
    /\ InitLocals
    /\ other = NoInvocation

NextMinutes == EstimateMinutes

SpecMinutes == InitMinutes /\ [][NextMinutes]_vars

(***************************************************************************)
(* Properties.                                                             *)
(***************************************************************************)
Returned == pc = "returned"

Finished == pc \in {"returned", "raised"}

BestPath == result.best_path

RestaurantId(k) == orders[k].restaurant.id

CustomerId(k) == orders[k].customer.id

\* every id the input refers to, the source's included
ReferencedIds ==
    {source.id} \cup { RestaurantId(k) : k \in 1..Len(orders) }
                \cup { CustomerId(k) : k \in 1..Len(orders) }

WaypointIds == ReferencedIds \ {source.id}

\* the orderings of a set: every element exactly once
PermSet(S) ==
    { p \in [1..Cardinality(S) -> S] :
        \A i, j \in 1..Cardinality(S) : i # j => p[i] # p[j] }

\* restaurant-before-customer, for the orders both of whose ids are waypoints
RespectsPrecedence(p) ==
    \A k \in 1..Len(orders) :
        (RestaurantId(k) # CustomerId(k)
           /\ RestaurantId(k) \in Range(p) /\ CustomerId(k) \in Range(p))
        => IndexOf(p, RestaurantId(k)) < IndexOf(p, CustomerId(k))

\* the cost evaluator's value of a path, with this call's matrix and prep map
Cost(p) == total_time_mins(source, p, travel_times, prep_times)

\* the simulated clock when the courier leaves the j-th stop of a route
\* that starts at the source (the source is left at time 0)
LeaveTime(route, j) == Cost(SubSeq(route, 2, j))

AllIdsDistinct ==
    Cardinality(ReferencedIds) = 1 + 2 * Len(orders)

\* C1 as claimed: in the returned best_path every order's restaurant id
\* stands strictly before its customer id, for every order whatsoever.
C1_PrecedenceEveryOrder ==
    Returned =>
        \A k \in 1..Len(orders) :
            /\ RestaurantId(k) \in Range(BestPath)
            /\ CustomerId(k) \in Range(BestPath)
            /\ IndexOf(BestPath, RestaurantId(k))
                   < IndexOf(BestPath, CustomerId(k))

\* C1 (amended): for every order whose customer id is neither its restaurant
\* id nor the source id, if the customer id occurs in the returned best_path
\* then the restaurant id occurs in it at a strictly earlier position.
C1_Precedence ==
    Returned =>
        \A k \in 1..Len(orders) :
            (CustomerId(k) # RestaurantId(k) /\ CustomerId(k) # source.id
               /\ CustomerId(k) \in Range(BestPath))
            => /\ RestaurantId(k) \in Range(BestPath)
               /\ IndexOf(BestPath, RestaurantId(k))
                      < IndexOf(BestPath, CustomerId(k))

\* two orders over four waypoints, all ids distinct, all of them visited
C1_Witness ==
    /\ Returned
    /\ Len(orders) = 2
    /\ AllIdsDistinct
    /\ Len(BestPath) = 5

SequentialPaths ==
    { <<RestaurantId(1), CustomerId(1), RestaurantId(2), CustomerId(2)>>,
      <<RestaurantId(2), CustomerId(2), RestaurantId(1), CustomerId(1)>> }

C3_FoodReadyEveryOrder ==
    Returned =>
        \A k \in 1..Len(orders) :
            /\ RestaurantId(k) \in Range(BestPath)
            /\ LeaveTime(BestPath, IndexOf(BestPath, RestaurantId(k)))
                   >= orders[k].prep_time_mins

\* the last order that names restaurant id r
LastOrderOf(r) ==
    CHOOSE k \in 1..Len(orders) :
        /\ RestaurantId(k) = r
        /\ \A j \in (k + 1)..Len(orders) : RestaurantId(j) # r

\* C3 (amended): every restaurant id other than the source id that occurs in
\* the returned route is left no earlier than the prep time of the last order
\* naming that restaurant id.
C3_FoodReady ==
    Returned =>
        \A k \in 1..Len(orders) :
            (RestaurantId(k) # source.id /\ RestaurantId(k) \in Range(BestPath))
            => LeaveTime(BestPath, IndexOf(BestPath, RestaurantId(k)))
                   >= orders[LastOrderOf(RestaurantId(k))].prep_time_mins

\* the courier reaches a restaurant before its food is ready and waits
C3_Witness ==
    /\ Returned
    /\ \E k \in 1..Len(orders) :
           /\ RestaurantId(k) # source.id
           /\ RestaurantId(k) \in Range(BestPath)
           /\ orders[k].prep_time_mins > 0
           /\ LET j == IndexOf(BestPath, RestaurantId(k))
                  arrival == LeaveTime(BestPath, j - 1)
                                 + travel_times[BestPath[j - 1]][BestPath[j]]
              IN  /\ arrival > 0
                  /\ arrival < orders[k].prep_time_mins
                  /\ LeaveTime(BestPath, j) = orders[k].prep_time_mins

\* C4: the returned best_path is the source id followed by every distinct
\* restaurant and customer id, each exactly once.
C4_Coverage ==
    Returned =>
        /\ BestPath # <<>>
        /\ BestPath[1] = source.id
        /\ Range(BestPath) = ReferencedIds
        /\ Len(BestPath) = Cardinality(ReferencedIds)

\* C5: with zero orders best_route returns ([source.id], 0.0).
C5_ZeroOrders ==
    (Finished /\ orders = <<>>) =>
        /\ Returned
        /\ result = RouteResult(<<source.id>>, Fin(0))

C5_Witness == Returned /\ orders = <<>>

\* the two-hop simulation of one order
TwoHop(R, C, prep) ==
    LET t1   == minutes(distance_km(source, R))
        wait == Max(0, prep - t1)
    IN  t1 + wait + minutes(distance_km(R, C))

C8_NeverRaises == pc # "raised"

\* C9: for one order whose restaurant and customer are the source location
\* itself, find_best_route returns ([source.id], 0.0) and does not fail.
C9_IdenticalLocations ==
    (/\ Finished
     /\ entry = "find_best_route"
     /\ Len(orders) = 1
     /\ orders[1].restaurant = source
     /\ orders[1].customer = source)
    => /\ Returned
       /\ result = RouteResult(<<source.id>>, Fin(0))

\* C10: a completed best_route call with the source and orders of the first
\* completed call ends as that call did (same best_path, same total, same
\* failure if any), whatever calls were made in between.
C10_Deterministic ==
    (/\ Finished
     /\ first.set
     /\ entry = first.entry
     /\ source = first.source
     /\ orders = first.orders)
    => /\ pc = first.pc
       /\ result = first.result
       /\ error = first.error

\* the third call repeats the first call's input and returns a real route
C10_Witness ==
    /\ Returned
    /\ calls = 3
    /\ first.set
    /\ source = first.source
    /\ orders = first.orders
    /\ Len(BestPath) = 5

\* the simulated clock after each stop of a path: entry j is the clock when
\* the courier leaves the j-th stop
ClockTrace(p) == [j \in 1..Len(p) |-> Cost(SubSeq(p, 1, j))]

NonNegativeInputs ==
    /\ \A k \in 1..Len(orders) : orders[k].prep_time_mins >= 0
    /\ \A a \in DOMAIN travel_times : \A b \in DOMAIN travel_times[a] :
           travel_times[a][b] >= 0

\* C11: with non-negative travel and prep times the evaluator's clock starts
\* at 0 and never decreases from one stop to the next, on every candidate
\* path, and the total returned by best_route is a number >= 0.
C11_ClockMonotone ==
    (entry = "best_route" /\ pc \in {"check", "returned"}
       /\ NonNegativeInputs) =>
        /\ Cost(<<>>) = 0
        /\ \A n \in 1..Len(valid_paths) :
               LET tr == ClockTrace(valid_paths[n])
               IN  /\ Len(tr) > 0 => tr[1] >= 0
                   /\ \A j \in 2..Len(tr) : tr[j] >= tr[j - 1]
        /\ Returned =>
               /\ ~result.total_time_mins.inf
               /\ result.total_time_mins.v >= 0

\* a returned route of four stops on which the clock strictly advances after
\* a customer stop and the courier then reaches a restaurant whose food has
\* long been ready
C11_Witness ==
    /\ Returned
    /\ NonNegativeInputs
    /\ Len(BestPath) = 5
    /\ result.total_time_mins.v > 0
    /\ \E j \in 3..5 :
           /\ DictHas(prep_times, BestPath[j])
           /\ ~DictHas(prep_times, BestPath[j - 1])
           /\ LeaveTime(BestPath, j - 1) > prep_times.val[BestPath[j]]

\* C15: when there are no orders, best_route returns without invoking the
\* path generator: no step of a call with zero orders is the call and
\* iteration of valid_paths (line 31).
C15_GeneratorNotInvoked == [][orders = <<>> => ~GeneratePaths]_vars

\* the candidate paths best_route holds that it has not evaluated yet
Unevaluated ==
    IF pc = "check" THEN Len(valid_paths)
    ELSE IF pc = "evaluate" THEN Len(valid_paths) - (idx - 1)
    ELSE 0

\* C16: best_route consumes the candidates as a one-pass stream: at no point
\* does it hold more than one candidate path that is not yet evaluated.
C16_Streaming == entry = "best_route" => Unevaluated <= 1

\* the number of candidates the loop has evaluated
Evaluated ==
    IF pc = "evaluate" THEN idx - 1
    ELSE IF pc = "returned" THEN Len(valid_paths)
    ELSE 0

\* position k is the first one among the first n candidates whose cost is
\* the least of those n costs
FirstMinimum(k, n) ==
    LET cost == [j \in 1..n |-> Cost(valid_paths[j])]
    IN  /\ k \in 1..n
        /\ \A j \in 1..n : cost[k] <= cost[j]
        /\ \A j \in 1..(k - 1) : cost[j] > cost[k]

Yielded == entry = "best_route" /\ pc = "check"

NoDuplicates(s) == \A i, j \in 1..Len(s) : i # j => s[i] # s[j]

\* restaurant strictly before customer for every order, an order whose two
\* ids are equal excepted
PrecedesForEveryOrder(p) ==
    \A k \in 1..Len(orders) :
        RestaurantId(k) # CustomerId(k) =>
            /\ RestaurantId(k) \in Range(p)
            /\ CustomerId(k) \in Range(p)
            /\ IndexOf(p, RestaurantId(k)) < IndexOf(p, CustomerId(k))

\* C18 as claimed: for at least one order valid_paths yields, each exactly
\* once, the permutations of the non-source waypoint ids in which every
\* order's restaurant precedes its customer (equal ids excepted), and nothing
\* else.
C18_YieldsEveryOrder ==
    (Yielded /\ Len(orders) >= 1) =>
        /\ NoDuplicates(valid_paths)
        /\ Range(valid_paths)
               = { p \in PermSet(WaypointIds) : PrecedesForEveryOrder(p) }

\* C18 (amended): for at least one order valid_paths yields, each exactly
\* once, the permutations of the non-source waypoint ids in which the
\* restaurant precedes the customer for every order whose two ids are
\* distinct waypoints (an order whose ids are equal, or one of whose ids is
\* the source id, imposes no constraint), and nothing else.
C18_Yields ==
    (Yielded /\ Len(orders) >= 1) =>
        /\ NoDuplicates(valid_paths)
        /\ Range(valid_paths)
               = { p \in PermSet(WaypointIds) : RespectsPrecedence(p) }

\* four waypoints, two constraints: 6 of the 24 permutations are yielded
C18_Witness ==
    /\ Yielded
    /\ Len(orders) = 2
    /\ AllIdsDistinct
    /\ Len(valid_paths) = 6

\* the position at which an id is first seen in the input: restaurant then
\* customer of each order, in input order
FirstSeen(x) ==
    LET at == { 2 * k - 1 : k \in { n \in 1..Len(orders) : RestaurantId(n) = x } }
              \cup { 2 * k : k \in { n \in 1..Len(orders) : CustomerId(n) = x } }
    IN  CHOOSE m \in at : \A n \in at : m <= n

\* p comes before q in the lexicographic order induced by FirstSeen
LexBefore(p, q) ==
    \E n \in 1..Len(p) :
        /\ n <= Len(q)
        /\ \A m \in 1..(n - 1) : p[m] = q[m]
        /\ FirstSeen(p[n]) < FirstSeen(q[n])

\* C19: the paths valid_paths yields come in lexicographic order with respect
\* to the first-seen order of the waypoint ids: each yielded path is
\* lexicographically before every path yielded after it.
C19_LexicographicOrder ==
    Yielded =>
        \A i, j \in 1..Len(valid_paths) :
            i < j => LexBefore(valid_paths[i], valid_paths[j])

\* an id is named by both orders, and several paths are yielded
C19_Witness ==
    /\ Yielded
    /\ Len(orders) = 2
    /\ ~AllIdsDistinct
    /\ Cardinality(WaypointIds) = 3
    /\ Len(valid_paths) >= 2

\* C20: with zero orders valid_paths yields no candidate path at all, not
\* even the empty path.
C20_ZeroOrdersNoPath ==
    (Yielded /\ orders = <<>>) => valid_paths = <<>>

\* the generator has been drained for a call without orders
C20_Witness == Yielded /\ orders = <<>> /\ Len(valid_paths) = 0

\* the working data this call has built so far holds this call's ids only
FreshWorkingData ==
    entry = "best_route" =>
        /\ pc # "start" =>
               /\ Range(locations.keys) = ReferencedIds
               /\ \A x \in ReferencedIds : locations.val[x].id = x
               /\ Range(prep_times.keys)
                      = { RestaurantId(k) : k \in 1..Len(orders) }
        /\ pc \in {"generate", "check", "evaluate", "returned"} =>
               /\ DOMAIN travel_times = ReferencedIds
               /\ \A x \in ReferencedIds :
                      DOMAIN travel_times[x] = ReferencedIds
        /\ pc \in {"check", "evaluate", "returned"} =>
               \A n \in 1..Len(valid_paths) :
                   Range(valid_paths[n]) = WaypointIds

\* what outlives a call: the instance as constructed, and a result made of a
\* path and a total only
NothingKept ==
    /\ self = get_route_optimizer
    /\ DOMAIN result = {"best_path", "total_time_mins"}

\* a step of a call leaves the instance and the caller's arguments alone
FrameStep ==
    /\ self' = self
    /\ calls' = calls => (source' = source /\ orders' = orders)

\* C12: a best_route call leaves the injected components and the caller's
\* source and orders unchanged and keeps nothing: in every call of a sequence
\* of calls the location map, the prep-time map, the travel-time matrix and
\* the candidate list hold that call's data only, and after the call the
\* instance is as constructed.
C12_Frame == [](FreshWorkingData /\ NothingKept) /\ [][FrameStep]_vars

\* a second call has returned whose input leaves out an id of the first call
C12_Witness ==
    /\ Returned
    /\ calls = 2
    /\ first.set
    /\ first.pc = "returned"
    /\ Len(first.orders) >= 1
    /\ Len(orders) >= 1
    /\ first.orders[1].restaurant.id \notin ReferencedIds

\* how an invocation ended
Outcome(f) == [pc |-> f.pc, result |-> f.result, error |-> f.error]

\* C13: of two best_route invocations on one instance whose steps interleave
\* in any order, each ends exactly as it ends when run alone, and no step of
\* the running invocation changes the data of the suspended one.
C13_Isolated ==
    /\ [](/\ Finished => Outcome(Frame) = best_route_alone(source, orders)
          /\ (other.set /\ other.pc \in {"returned", "raised"}) =>
                 Outcome(other) = best_route_alone(other.source, other.orders))
    /\ [][Next => other' = other]_vars

\* one invocation has returned a route over four waypoints while the other,
\* on a different input, is suspended in the middle of its loop
C13_Witness ==
    /\ Returned
    /\ Len(BestPath) = 5
    /\ other.set
    /\ other.pc = "evaluate"
    /\ other.idx >= 2
    /\ other.idx <= Len(other.valid_paths)
    /\ other.orders # orders

OutOfRange(loc) ==
    loc.lat < -90 \/ loc.lat > 90 \/ loc.lon < -180 \/ loc.lon > 180

MalformedOrder(o) ==
    OutOfRange(o.restaurant) \/ OutOfRange(o.customer) \/ o.prep_time_mins < 0

MalformedRequest ==
    OutOfRange(source) \/ \E k \in 1..Len(orders) : MalformedOrder(orders[k])

\* C14: a request with a latitude outside [-90, 90], a longitude outside
\* [-180, 180] or a negative prep time is rejected by validation with a
\* client error, and best_route is never entered for it.
C14_RejectedUpstream ==
    MalformedRequest =>
        /\ entry = "none"
        /\ pc \in {"received", "rejected"}
        /\ pc = "rejected" => error = "HTTP 422"

\* a request whose source and first order are well-formed and whose second
\* order has a latitude of 91 degrees has been rejected
C14_Witness ==
    /\ pc = "rejected"
    /\ error = "HTTP 422"
    /\ Len(orders) = 2
    /\ ~OutOfRange(source)
    /\ ~MalformedOrder(orders[1])
    /\ orders[2].restaurant.lat = 91

\* one restaurant "r" with prep time 10 at the given travel time from "s"
OneStopMatrix(travel) ==
    [a \in {"s", "r"} |-> [b \in {"s", "r"} |-> IF a = b THEN 0 ELSE travel]]

OneStopTotal(travel, prep) ==
    total_time_mins(Location("s", 0, 0), <<"r">>, OneStopMatrix(travel),
                    DictPut(EmptyDict, "r", prep))

\* C21: total_time_mins is the step-by-step simulation: the clock is 0 at the
\* source, and after each stop it is the arrival time (previous clock plus
\* travel) at a stop without a registered prep time and max(arrival, prep)
\* at a restaurant; travel 5 and prep 10 give 10, travel 15 and prep 10
\* give 15.
C21_Simulation ==
    /\ OneStopTotal(5, 10) = 10
    /\ OneStopTotal(15, 10) = 15
    /\ (entry = "best_route" /\ pc \in {"check", "returned"}) =>
           \A n \in 1..Len(valid_paths) :
               LET p     == valid_paths[n]
                   route == <<source.id>> \o p
                   tr    == <<0>> \o ClockTrace(p)
               IN  /\ Cost(p) = tr[Len(tr)]
                   /\ \A j \in 2..Len(route) :
                          LET arrival ==
                                  tr[j - 1] + travel_times[route[j - 1]][route[j]]
                          IN  tr[j] = IF DictHas(prep_times, route[j])
                                      THEN Max(arrival, prep_times.val[route[j]])
                                      ELSE arrival

\* a candidate on which the courier waits at one restaurant and arrives late
\* at another
C21_Witness ==
    /\ entry = "best_route"
    /\ pc = "check"
    /\ \E n \in 1..Len(valid_paths) :
           LET p     == valid_paths[n]
               route == <<source.id>> \o p
               tr    == <<0>> \o ClockTrace(p)
           IN  /\ \E j \in 2..Len(route) :
                      /\ DictHas(prep_times, route[j])
                      /\ tr[j - 1] + travel_times[route[j - 1]][route[j]]
                             < prep_times.val[route[j]]
               /\ \E j \in 2..Len(route) :
                      /\ DictHas(prep_times, route[j])
                      /\ prep_times.val[route[j]] > 0
                      /\ tr[j - 1] + travel_times[route[j - 1]][route[j]]
                             > prep_times.val[route[j]]

RestaurantIds == { RestaurantId(k) : k \in 1..Len(orders) }

\* the stop at position j of the returned route adds the travel time of its
\* leg and nothing else
NoWaitAt(j) ==
    LeaveTime(BestPath, j)
        = LeaveTime(BestPath, j - 1) + travel_times[BestPath[j - 1]][BestPath[j]]

\* C22 as claimed: in the simulation of the returned route the stop at any
\* order's customer location adds exactly the travel time of its leg.
C22_CustomerNeverWaitsAny ==
    Returned =>
        \A k \in 1..Len(orders) :
            \A j \in 2..Len(BestPath) :
                BestPath[j] = CustomerId(k) => NoWaitAt(j)

\* C22 (amended): in the simulation of the returned route the stop at the
\* customer location of any order adds exactly the travel time of its leg and
\* no waiting, provided the customer's id is not the restaurant id of any
\* order.
C22_CustomerNeverWaits ==
    Returned =>
        \A k \in 1..Len(orders) :
            \A j \in 2..Len(BestPath) :
                (BestPath[j] = CustomerId(k) /\ CustomerId(k) \notin RestaurantIds)
                    => NoWaitAt(j)

\* a customer is reached after a positive trip, before the prep time of its
\* own order would have elapsed had the clock started on arrival
C22_Witness ==
    /\ Returned
    /\ \E k \in 1..Len(orders) :
           \E j \in 2..Len(BestPath) :
               /\ BestPath[j] = CustomerId(k)
               /\ CustomerId(k) \notin RestaurantIds
               /\ orders[k].prep_time_mins > 0
               /\ travel_times[BestPath[j - 1]][BestPath[j]] > 0
               /\ LeaveTime(BestPath, j) > LeaveTime(BestPath, j - 1)

\* the call total_time_mins(source, path, travel_times, prep_times) for the
\* k-th candidate, with this call's matrix and prep-time map
EvaluatorCall(k) ==
    [source |-> source, path |-> valid_paths[k],
     travel_times |-> travel_times, prep_times |-> prep_times]

\* C23: best_route calls the cost evaluator exactly once for each candidate,
\* in the generator's order, each time with the same travel-time matrix and
\* prep-time map: at every point of a call the evaluator calls made so far
\* are those for the first candidates, one each and in order, and at the
\* return they are those for all candidates.
C23_EvaluatedOnceInOrder ==
    entry = "best_route" =>
        /\ calllog.total_time_mins = [k \in 1..Evaluated |-> EvaluatorCall(k)]
        /\ Returned => Len(calllog.total_time_mins) = Len(valid_paths)

\* a call over six candidates has returned
C23_Witness ==
    /\ Returned
    /\ Len(valid_paths) = 6
    /\ Len(calllog.total_time_mins) = 6
    /\ calllog.total_time_mins[1].path # calllog.total_time_mins[6].path

\* _precompute_travel_times has returned in this call
Precomputed ==
    entry = "best_route" /\ pc \in {"generate", "check", "evaluate", "returned"}

\* C24: the matrix has an entry for every ordered pair of location ids; the
\* entry for (a, a) is 0 and costs no call; the entry for (a, b), a # b, is
\* minutes(distance_km(a, b)); the distance model and the time model are each
\* called exactly once per ordered pair of distinct ids, n (n - 1) times.
C24_Matrix ==
    Precomputed =>
        LET n == Cardinality(ReferencedIds)
        IN  /\ DOMAIN travel_times = ReferencedIds
            /\ \A a \in ReferencedIds :
                   /\ DOMAIN travel_times[a] = ReferencedIds
                   /\ travel_times[a][a] = 0
                   /\ \A b \in ReferencedIds \ {a} :
                          /\ travel_times[a][b]
                                 = minutes(distance_km(locations.val[a],
                                                       locations.val[b]))
                          /\ Cardinality({ k \in 1..Len(calllog.distance_km) :
                                 calllog.distance_km[k] = <<a, b>> }) = 1
                   /\ \A k \in 1..Len(calllog.distance_km) :
                          calllog.distance_km[k] # <<a, a>>
            /\ Len(calllog.distance_km) = n * (n - 1)
            /\ Len(calllog.minutes) = n * (n - 1)

\* a matrix over five ids (20 calls of each model) with a positive entry
C24_Witness ==
    /\ Precomputed
    /\ pc = "generate"
    /\ Cardinality(ReferencedIds) = 5
    /\ Len(calllog.distance_km) = 20
    /\ \E a, b \in ReferencedIds : travel_times[a][b] > 0

\* id is a row of the matrix and a column of every row
MatrixKey(id) ==
    /\ id \in DOMAIN travel_times
    /\ \A a \in DOMAIN travel_times : id \in DOMAIN travel_times[a]

\* C25: in every best_route call every id that occurs in a candidate path
\* yielded by the generator, or as a key of the prep-time map, is a key of
\* the travel-time matrix, as a row and as a column of every row.
C25_IdsInMatrix ==
    /\ Precomputed =>
           \A k \in 1..Len(prep_times.keys) : MatrixKey(prep_times.keys[k])
    /\ (entry = "best_route" /\ pc \in {"check", "evaluate", "returned"}) =>
           \A n \in 1..Len(valid_paths) :
               \A j \in 1..Len(valid_paths[n]) : MatrixKey(valid_paths[n][j])

\* several candidates over ids that two orders share, one of them the
\* source's
C25_Witness ==
    /\ entry = "best_route"
    /\ pc = "check"
    /\ Len(orders) = 2
    /\ ~AllIdsDistinct
    /\ source.id \in RestaurantIds
    /\ Len(valid_paths) >= 2

\* the locations of the input in input order: the source, then restaurant
\* and customer of each order
InputLocations ==
    <<source>> \o Flatten([k \in 1..Len(orders) |->
                              <<orders[k].restaurant, orders[k].customer>>])

\* the location data of the last occurrence of id x in the input
LastOccurrence(x) ==
    LET at == { k \in 1..Len(InputLocations) : InputLocations[k].id = x }
    IN  InputLocations[CHOOSE k \in at : \A j \in at : j <= k]

\* C26: merging by id is last-write-wins: the matrix is computed from the
\* location data of the last occurrence of each id in input order, and the
\* prep time used for a restaurant id is that of the last order naming it.
C26_LastWriteWins ==
    /\ (entry = "best_route" /\ pc # "start") =>
           /\ \A x \in ReferencedIds : locations.val[x] = LastOccurrence(x)
           /\ \A r \in RestaurantIds :
                  prep_times.val[r] = orders[LastOrderOf(r)].prep_time_mins
    /\ Precomputed =>
           \A a, b \in ReferencedIds :
               a # b => travel_times[a][b]
                            = minutes(distance_km(LastOccurrence(a),
                                                  LastOccurrence(b)))

\* two orders name restaurant "a" at different coordinates and with
\* different prep times, and the matrix shows the later coordinates
C26_Witness ==
    /\ Precomputed
    /\ Len(orders) = 2
    /\ orders[1].restaurant.id = orders[2].restaurant.id
    /\ orders[1].prep_time_mins # orders[2].prep_time_mins
    /\ LET a == orders[1].restaurant.id
       IN  travel_times[source.id][a]
               # minutes(distance_km(source, orders[1].restaurant))

\* C27: minutes(km) is (km / speed) * 60 for the speed given at construction:
\* doubling km doubles the result, 0 km gives 0, a negative km gives the
\* negative result of the same formula, and doubling the speed halves the
\* result.
C27_Minutes ==
    \A n \in 1..Len(calllog.minutes) :
        LET call == calllog.minutes[n]
            est  == ConstantSpeedEstimator_init(call.kmph)
            twice == ConstantSpeedEstimator_init(2 * call.kmph)
        IN  /\ call.kmph > 0 =>
                /\ est._kmph = call.kmph
                /\ call.ret.den > 0
                /\ RatEq(call.ret, Rat(call.km * 60, call.kmph))
                /\ RatEq(RatTimes(ConstantSpeedEstimator_minutes(twice, call.km),
                                  2),
                         call.ret)
            /\ RatEq(ConstantSpeedEstimator_minutes(est, 2 * call.km),
                     RatTimes(call.ret, 2))
            /\ call.km = 0 => call.ret.num = 0
            /\ call.km < 0 => call.ret.num < 0

\* a negative distance at speed 20 and a positive one at speed 60
C27_Witness ==
    /\ \E n \in 1..Len(calllog.minutes) :
           /\ calllog.minutes[n].kmph = 20
           /\ calllog.minutes[n].km = -1
           /\ RatEq(calllog.minutes[n].ret, Rat(-3, 1))
    /\ \E n \in 1..Len(calllog.minutes) :
           /\ calllog.minutes[n].kmph = 60
           /\ calllog.minutes[n].km = 1
           /\ RatEq(calllog.minutes[n].ret, Rat(1, 1))

\* there are orders, and no ordering of the waypoints puts every order's
\* restaurant before its customer
ContradictoryOrders ==
    /\ Len(orders) >= 1
    /\ \A p \in PermSet(WaypointIds) : ~RespectsPrecedence(p)

\* C28: when the orders impose contradictory precedence, so that no
\* permutation of the waypoints is accepted, best_route returns
\* ([source.id], 0.0), as for zero orders, and visits no waypoint.
C28_ContradictoryOrders ==
    (Returned /\ ContradictoryOrders) =>
        /\ valid_paths = <<>>
        /\ result = RouteResult(<<source.id>>, Fin(0))
        /\ Range(BestPath) \cap WaypointIds = {}
        /\ calllog.total_time_mins = <<>>

\* restaurant d with customer e, and restaurant e with customer d
C28_Witness ==
    /\ Returned
    /\ ContradictoryOrders
    /\ Len(orders) = 2
    /\ RestaurantId(1) = CustomerId(2)
    /\ RestaurantId(2) = CustomerId(1)
    /\ RestaurantId(1) # CustomerId(1)
    /\ source.id \notin WaypointIds

\* C29: find_best_route and best_route are equivalent: on every source and
\* list of orders the legacy entry point ends as best_route does, with the
\* same best_path and total_time_mins, and fails only if best_route fails.
C29_LegacyEquivalent ==
    (entry = "find_best_route" /\ Finished) =>
        LET core == best_route_alone(source, orders)
        IN  /\ pc = core.pc
            /\ Returned => result = core.result

\* the reorderings of this call's orders list
Reorderings ==
    { [k \in 1..Len(orders) |-> orders[p[k]]] : p \in PermSet(1..Len(orders)) }

\* C30: when the ids of the source and of the orders are pairwise distinct,
\* best_route returns the same total_time_mins for every reordering of the
\* orders list.
C30_OrderIndependentTotal ==
    (Returned /\ AllIdsDistinct) =>
        \A os \in Reorderings :
            LET again == best_route_alone(source, os)
            IN  /\ again.pc = "returned"
                /\ again.result.total_time_mins = result.total_time_mins

\* two orders whose exchange changes the returned path but not the total
C30_Witness ==
    /\ Returned
    /\ AllIdsDistinct
    /\ Len(orders) = 2
    /\ result.total_time_mins.v > 0
    /\ \E os \in Reorderings :
           /\ os # orders
           /\ best_route_alone(source, os).result.best_path # BestPath

============================================================================
